---- MODULE Spec2Model ----
(***************************************************************************)
(* A model of perf-vumeter: the sampling loop of src/bin/perf-vumeter.rs   *)
(* with the counter sources of src/stats.rs.                               *)
(*                                                                         *)
(* Numbers.  i16 / u8 / u32 values keep their width.  f64 values are       *)
(* IEEE 754 binary64: a sign, a 53 bit significand and an exponent, every  *)
(* operation rounded to nearest, ties to even; the casts "as i16", "as u8" *)
(* and "as i64" truncate towards zero and saturate as Rust's do.  u32      *)
(* nanosecond values do not fit a 32 bit signed integer, so they are kept  *)
(* as two 16 bit limbs <<hi, lo>>; usize values as four; i64 rates as a   *)
(* sign and the digits of the magnitude.                                   *)
(***************************************************************************)
EXTENDS Integers, Sequences, FiniteSets, TLC

VARIABLES
    pc,          \* position of main()
    build,       \* "debug" (overflow checks on) or "release" (wrapping)
    opts,        \* OptsCommon: [samplerate, max_mbps]
    LAST_VAL,    \* static mut LAST_VAL: [i16; CHANNELS_NUM] of set_vu, kept as
                 \* the entries written so far: every other entry is 0
    lastCall,    \* the most recent set_vu call: channel, clamped target, new
                 \* value, result, bytes written
    helloPos,    \* hello(): <<index into the chained range, channel>>
    cpustats,    \* CpuStats.prev_idle (Seq of i64), or Unset
    n_cpu,       \* let n_cpu = cpustats.n_cpu()
    rx,          \* IfStats(Rx).prev_cnt, or Unset
    tx,          \* IfStats(Tx).prev_cnt, or Unset
    diskstats,   \* DiskStats.prev_stats (device -> <<rd, wrt>>), or Unset
    sleep_ns,    \* u32 limbs
    elapsed_ns,  \* u32 limbs
    slept,       \* argument of the most recent thread::sleep of the loop
    cpu_rates,   \* result of cpustats.cpurates() in the current tick
    disk_rates,  \* result of diskstats.diskrates() in the current tick
    gauge,       \* the f64 gauge computed for the stage about to be written
    rx_rate,     \* result of rx.bitrate() in the current tick
    tx_rate,     \* result of tx.bitrate() in the current tick
    boot,        \* what main() has done before its first iteration, in order
    hold,        \* a target held constant on a channel: [channel, gauge, calls,
                 \* from], channel 0 while none is held
    tickLog,     \* what the current tick has done so far, in order
    seen,        \* the disk samples of the current tick: [prev, cur, us]
    fault        \* how main() ended: [why, input, at], NoFault while running

vars == <<pc, build, opts, LAST_VAL, lastCall, helloPos, cpustats, n_cpu, rx, tx,
          diskstats, sleep_ns, elapsed_ns, slept, cpu_rates, disk_rates, gauge,
          rx_rate, tx_rate, boot, hold, tickLog, seen, fault>>

----------------------------------------------------------------------------
(* Program constants *)

\* half the step
MAX_DELTA_Half == 96 \div 2
MAX_DELTA == 96
\* every u8 accepted as a channel
CHANNELS_NUM_U8 == 255 + 1
CHANNELS_NUM == 192
CPU_JIFF == 100
NET_ZERO == 108
GAUGE_MIN == 28
GAUGE_MAX == 255
CHANNEL_BASE == 48
FRAME_SYNC == 253
FRAME_CMD == 2
NANOS_PER_SEC == 1000000000
MICROS_PER_SEC == 1000000
DISK_FULL_SCALE == 200000
GAUGE_SPAN == 256

Unset == "unset"

----------------------------------------------------------------------------
(* Integer helpers with Rust's semantics *)

Abs(x) == IF x < 0 THEN -x ELSE x
Min(a, b) == IF a < b THEN a ELSE b
Max(a, b) == IF a > b THEN a ELSE b
Signum(x) == IF x > 0 THEN 1 ELSE IF x < 0 THEN -1 ELSE 0
Clamp(x, lo, hi) == IF x < lo THEN lo ELSE IF x > hi THEN hi ELSE x

I16_MIN == -32768
I16_MAX == 32767
\* two's complement wrap of an i16 result
I16Wrap(x) == ((x + 32768) % 65536) - 32768
\* "as u8" of an integer: truncation to the low 8 bits
AsU8(x) == x % 256

----------------------------------------------------------------------------
(* Natural numbers of any size, for the 53 bit significands of f64: a
   sequence of digits in base 2^14, the least significant first, without
   leading zeros; <<>> is 0 *)

NB == 16384
NDig(x, i) == IF i <= Len(x) THEN x[i] ELSE 0
RECURSIVE NTrim(_)
NTrim(x) == IF x # <<>> /\ x[Len(x)] = 0 THEN NTrim(SubSeq(x, 1, Len(x) - 1)) ELSE x
\* the digits of the number whose i-th column holds cols[i], c carried in
RECURSIVE NCarry(_, _)
NCarry(cols, c) ==
    IF cols = <<>> THEN (IF c = 0 THEN <<>> ELSE <<c % NB>> \o NCarry(<<>>, c \div NB))
    ELSE <<(Head(cols) + c) % NB>> \o NCarry(Tail(cols), (Head(cols) + c) \div NB)
\* the number of bits of x
NBits(x) ==
    LET RECURSIVE BitLen(_)
        BitLen(d) == IF d = 0 THEN 0 ELSE 1 + BitLen(d \div 2)
    IN  IF x = <<>> THEN 0 ELSE 14 * (Len(x) - 1) + BitLen(x[Len(x)])
\* -1, 0, 1 as a < b, a = b, a > b
NCmp(a, b) ==
    LET RECURSIVE From(_)
        From(i) == IF i = 0 THEN 0
                   ELSE IF a[i] < b[i] THEN -1 ELSE IF a[i] > b[i] THEN 1 ELSE From(i - 1)
    IN  IF Len(a) < Len(b) THEN -1 ELSE IF Len(a) > Len(b) THEN 1 ELSE From(Len(a))
NAdd(a, b) ==
    NCarry([i \in 1..(IF Len(a) > Len(b) THEN Len(a) ELSE Len(b)) |-> NDig(a, i) + NDig(b, i)], 0)
\* a - b for a >= b
NSub(a, b) == NTrim(NCarry([i \in 1..Len(a) |-> a[i] - NDig(b, i)], 0))
\* a * b: column k is the sum of the products a[i] * b[k + 1 - i]
NMul(a, b) ==
    LET RECURSIVE Column(_, _)
        Column(k, i) ==
            IF i > Len(a) \/ i > k THEN 0
            ELSE (IF k + 1 - i <= Len(b) THEN a[i] * b[k + 1 - i] ELSE 0) + Column(k, i + 1)
    IN  IF a = <<>> \/ b = <<>> THEN <<>>
        ELSE NTrim(NCarry([k \in 1..(Len(a) + Len(b) - 1) |-> Column(k, 1)], 0))
NShl(a, k) ==
    IF a = <<>> THEN <<>>
    ELSE [i \in 1..(k \div 14) |-> 0] \o NCarry([i \in 1..Len(a) |-> a[i] * 2^(k % 14)], 0)
NShr(a, k) ==
    IF k \div 14 >= Len(a) THEN <<>>
    ELSE LET h == SubSeq(a, (k \div 14) + 1, Len(a))
             r == k % 14
         IN  NTrim([i \in 1..Len(h) |->
                      (h[i] \div 2^r) + (NDig(h, i + 1) % 2^r) * 2^(14 - r)])

----------------------------------------------------------------------------
(* f64: IEEE 754 binary64 with round to nearest, ties to even. A finite
   value is neg, m, e with the value m * 2^e and m of exactly 53 bits, or m = 0;
   subnormal numbers are beyond what the program computes *)

\* a zero ("fin"), an infinity ("inf") or the NaN ("nan", neg FALSE)
F64Of(kind, neg) == [kind |-> kind, neg |-> neg, m |-> <<>>, e |-> 0]

\* the f64 nearest to m * 2^e
F64Round(neg, m, e) ==
    LET n == NBits(m)
        sh == n - 53
        q == NShr(m, sh)
        c == NCmp(NSub(m, NShl(q, sh)), NShl(<<1>>, sh - 1))
        q1 == IF c > 0 \/ (c = 0 /\ q[1] % 2 = 1) THEN NAdd(q, <<1>>) ELSE q
        r == IF n = 0 THEN F64Of("fin", neg)
             ELSE IF sh <= 0
                  THEN [kind |-> "fin", neg |-> neg, m |-> NShl(m, -sh), e |-> e + sh]
             ELSE IF NBits(q1) > 53
                  THEN [kind |-> "fin", neg |-> neg, m |-> NShr(q1, 1), e |-> e + sh + 1]
             ELSE [kind |-> "fin", neg |-> neg, m |-> q1, e |-> e + sh]
    IN  IF r.m # <<>> /\ r.e + 53 - 1 > 1023 THEN F64Of("inf", neg) ELSE r

\* "k as f64" of an integer
FInt(k) == F64Round(k < 0, NTrim(NCarry(<<IF k < 0 THEN -k ELSE k>>, 0)), 0)

FIsZero(a) == a.kind = "fin" /\ a.m = <<>>

FMul(a, b) ==
    IF a.kind = "nan" \/ b.kind = "nan" THEN F64Of("nan", FALSE)
    ELSE IF a.kind = "inf" \/ b.kind = "inf"
         THEN IF FIsZero(a) \/ FIsZero(b) THEN F64Of("nan", FALSE) ELSE F64Of("inf", a.neg # b.neg)
    ELSE F64Round(a.neg # b.neg, NMul(a.m, b.m), a.e + b.e)

\* long division of r * 2^(14 * n) by d, for r < d and d of 53 bits:
\* <<quotient, remainder>>, quot the digits found so far.  A digit is the
\* largest q with q * d <= r * 2^14; it is found from an estimate that is
\* not below it, the leading bits of r * 2^14 over the leading 15 bits of d
RECURSIVE NLongDiv(_, _, _, _)
NLongDiv(r, d, n, quot) ==
    IF n = 0 THEN <<quot, r>>
    ELSE LET r1 == IF r = <<>> THEN <<>> ELSE <<0>> \o r
             top == (NDig(r, 4) * 262144 + NDig(r, 3) * 16 + NDig(r, 2) \div 1024)
                        \div (d[4] * 16 + d[3] \div 1024)
             est == IF top > NB - 1 THEN NB - 1 ELSE top
             \* <<q, r1 - q * d>> for the digit q, t being q * d
             RECURSIVE Fit(_, _)
             Fit(q, t) == IF NCmp(t, r1) <= 0 THEN <<q, NSub(r1, t)>>
                          ELSE Fit(q - 1, NSub(t, d))
             f == Fit(est, NTrim(NCarry([i \in 1..Len(d) |-> d[i] * est], 0)))
         IN  NLongDiv(f[2], d, n - 1, <<f[1]>> \o quot)

FDiv(a, b) ==
    IF a.kind = "nan" \/ b.kind = "nan" THEN F64Of("nan", FALSE)
    ELSE IF a.kind = "inf"
         THEN IF b.kind = "inf" THEN F64Of("nan", FALSE) ELSE F64Of("inf", a.neg # b.neg)
    ELSE IF b.kind = "inf" THEN F64Of("fin", a.neg # b.neg)
    ELSE IF FIsZero(b) THEN IF FIsZero(a) THEN F64Of("nan", FALSE) ELSE F64Of("inf", a.neg # b.neg)
    ELSE IF FIsZero(a) THEN F64Of("fin", a.neg # b.neg)
    \* b is a power of two, 2^52 * 2^b.e: the quotient is a with another exponent
    ELSE IF b.m = <<0, 0, 0, 1024>>
         THEN [kind |-> "fin", neg |-> a.neg # b.neg, m |-> a.m, e |-> a.e - b.e - 52]
    ELSE LET q0 == IF NCmp(a.m, b.m) >= 0 THEN 1 ELSE 0
             qr == NLongDiv(IF q0 = 1 THEN NSub(a.m, b.m) ELSE a.m, b.m, 4, <<>>)
             q == NTrim(qr[1] \o <<q0>>)
             \* twice the quotient, and a last bit for a remainder that is left
             m == NAdd(NShl(q, 1), IF qr[2] = <<>> THEN <<>> ELSE <<1>>)
         IN  F64Round(a.neg # b.neg, m, a.e - b.e - 57)

FAdd(a, b) ==
    IF a.kind = "nan" \/ b.kind = "nan" THEN F64Of("nan", FALSE)
    ELSE IF a.kind = "inf"
         THEN IF b.kind = "inf" /\ a.neg # b.neg THEN F64Of("nan", FALSE) ELSE a
    ELSE IF b.kind = "inf" THEN b
    ELSE IF FIsZero(a) THEN (IF FIsZero(b) THEN F64Of("fin", a.neg /\ b.neg) ELSE b)
    ELSE IF FIsZero(b) THEN a
    ELSE IF a.e - b.e > 64 THEN a
    ELSE IF b.e - a.e > 64 THEN b
    ELSE LET e == IF a.e < b.e THEN a.e ELSE b.e
             x == NShl(a.m, a.e - e)
             y == NShl(b.m, b.e - e)
             c == NCmp(x, y)
         IN  IF a.neg = b.neg THEN F64Round(a.neg, NAdd(x, y), e)
             ELSE IF c = 0 THEN F64Of("fin", FALSE)
             ELSE IF c > 0 THEN F64Round(a.neg, NSub(x, y), e)
             ELSE F64Round(b.neg, NSub(y, x), e)
FSub(a, b) == FAdd(a, [b EXCEPT !.neg = ~b.neg])

\* a < b of f64: false when either is NaN
FLess(a, b) ==
    IF a.kind = "nan" \/ b.kind = "nan" THEN FALSE
    ELSE IF FIsZero(a) /\ FIsZero(b) THEN FALSE
    ELSE IF a.neg # b.neg THEN a.neg
    ELSE LET lt == \* |a| < |b|
                   IF a.kind = "inf" THEN FALSE
                   ELSE IF b.kind = "inf" THEN TRUE
                   ELSE IF FIsZero(a) THEN TRUE
                   ELSE IF FIsZero(b) THEN FALSE
                   ELSE a.e < b.e \/ (a.e = b.e /\ NCmp(a.m, b.m) < 0)
             gt == IF b.kind = "inf" THEN FALSE
                   ELSE IF a.kind = "inf" THEN TRUE
                   ELSE IF FIsZero(b) THEN TRUE
                   ELSE IF FIsZero(a) THEN FALSE
                   ELSE b.e < a.e \/ (a.e = b.e /\ NCmp(b.m, a.m) < 0)
         IN  IF a.neg THEN gt ELSE lt

\* the cast of an f64 to an integer type of lo..hi no wider than 16 bits
\* ("as i16", "as u8"): NaN gives 0, the fraction is dropped, what is beyond
\* the type saturates
F64AsInt(a, lo, hi) ==
    LET RECURSIVE ToInt(_)
        ToInt(x) == IF x = <<>> THEN 0 ELSE Head(x) + NB * ToInt(Tail(x))
    IN  IF a.kind = "nan" THEN 0
        ELSE IF a.kind = "inf" THEN (IF a.neg THEN lo ELSE hi)
        ELSE IF FIsZero(a) THEN 0
        ELSE IF 53 + a.e > 31 THEN (IF a.neg THEN lo ELSE hi)
        ELSE LET t == ToInt(NShr(a.m, -a.e))
             IN  IF a.neg THEN (IF -t < lo THEN lo ELSE -t) ELSE (IF t > hi THEN hi ELSE t)

----------------------------------------------------------------------------
(* i64: the sign and the digits of the magnitude, neg FALSE for 0 *)

\* the i64 of an integer of the model
I64Of(k) == [neg |-> k < 0, n |-> NTrim(NCarry(<<IF k < 0 THEN -k ELSE k>>, 0))]

\* a < b
I64Less(a, b) ==
    IF a.neg # b.neg THEN a.neg
    ELSE IF a.neg THEN NCmp(a.n, b.n) > 0 ELSE NCmp(a.n, b.n) < 0

\* a - b in i64: val is the difference wrapped into the type, overflow is
\* whether the exact difference is beyond it
I64Sub(a, b) ==
    LET c == NCmp(a.n, b.n)
        \* the sign of -b
        bn == ~b.neg /\ b.n # <<>>
        d == IF a.neg = bn THEN [neg |-> a.neg, n |-> NTrim(NAdd(a.n, b.n))]
             ELSE IF c = 0 THEN [neg |-> FALSE, n |-> <<>>]
             ELSE IF c > 0 THEN [neg |-> a.neg, n |-> NSub(a.n, b.n)]
             ELSE [neg |-> bn, n |-> NSub(b.n, a.n)]
        over == IF d.neg THEN NCmp(d.n, NShl(<<1>>, 63)) > 0
                ELSE NCmp(d.n, NShl(<<1>>, 63)) >= 0
    IN  [val |-> IF over THEN [neg |-> ~d.neg, n |-> NSub(NShl(<<1>>, 64), d.n)] ELSE d,
         overflow |-> over]

\* "x as f64" of an i64
I64AsF64(x) == F64Round(x.neg, x.n, 0)

\* "a as i64" of an f64: NaN gives 0, the fraction is dropped, what is
\* beyond the type becomes i64::MAX = 2^63 - 1 or i64::MIN = -2^63
F64AsI64(a) ==
    LET lim == NShl(<<1>>, 63)
        t == IF a.e >= 0 THEN NShl(a.m, a.e) ELSE NShr(a.m, -a.e)
        sat == IF a.neg THEN [neg |-> TRUE, n |-> lim]
               ELSE [neg |-> FALSE, n |-> NSub(lim, <<1>>)]
    IN  IF a.kind = "nan" \/ FIsZero(a) THEN I64Of(0)
        ELSE IF a.kind = "inf" \/ 53 + a.e > 64 THEN sat
        ELSE IF NCmp(t, lim) >= 0 THEN sat
        ELSE [neg |-> a.neg /\ t # <<>>, n |-> t]

\* a decimal literal n/d of the source, as the compiler rounds it
FLit(n, d) == FDiv(FInt(n), FInt(d))

----------------------------------------------------------------------------
(* u32 as limbs <<hi, lo>>, value hi * 65536 + lo *)

LIMB == 65536
U32Of(x) == <<x \div LIMB, x % LIMB>>
U32Less(a, b) == a[1] < b[1] \/ (a[1] = b[1] /\ a[2] < b[2])
\* a - b modulo 2^32
U32WrappingSub(a, b) ==
    LET lo == a[2] - b[2]
        borrow == IF lo < 0 THEN 1 ELSE 0
    IN  <<(a[1] - b[1] - borrow) % LIMB, lo % LIMB>>
\* Duration::as_nanos() as u32, of a Duration [secs, nanos]
DurationAsNanosU32(d) ==
    LET lo == d.secs * (NANOS_PER_SEC % LIMB) + (d.nanos % LIMB)
        hi == d.secs * (NANOS_PER_SEC \div LIMB) + (d.nanos \div LIMB) + (lo \div LIMB)
    IN  <<hi % LIMB, lo % LIMB>>

----------------------------------------------------------------------------
(* set_vu *)

NoCall == [channel |-> -1, target |-> 0, new |-> 0, result |-> "none", written |-> <<>>]

\* [0; CHANNELS_NUM]
ZeroArray == [c \in {} |-> 0]
\* LAST_VAL[ch_i]
At(last, ch_i) == IF ch_i \in DOMAIN last THEN last[ch_i] ELSE 0
\* LAST_VAL[ch_i] = new_value
Store(last, ch_i, new_value) ==
    [c \in DOMAIN last \cup {ch_i} |-> IF c = ch_i THEN new_value ELSE last[c]]

\* a clamp to the whole byte range instead
ClampGauge_Byte(g) == Clamp(g, 0, GAUGE_MAX)
\* gauge = gauge.clamp(28, 255)
ClampGauge(g) == Clamp(g, GAUGE_MIN, GAUGE_MAX)

\* the step without the limit
DeltaTrunc_Unbounded(delta) == Abs(delta)
\* let delta_trunc = delta.abs().min(MAX_DELTA)
DeltaTrunc(delta) == Min(Abs(delta), MAX_DELTA)

\* the channel-selector byte: 0x30 + channel in u8
Selector(channel) == AsU8(CHANNEL_BASE + channel)

\* The computation of set_vu up to the write: bail, or the new LAST_VAL and
\* the command buffer.  overflow: the u8 addition 0x30 + channel overflows.
set_vu(last, channel, g) ==
    IF channel >= CHANNELS_NUM
    THEN [bail |-> TRUE, last |-> last, target |-> 0, new |-> 0,
          cmd_buf |-> <<>>, overflow |-> FALSE]
    ELSE LET clamped == ClampGauge(g)
             delta == I16Wrap(clamped - At(last, channel))
             delta_sig == Signum(delta)
             delta_trunc == DeltaTrunc(delta)
             new_value == I16Wrap(At(last, channel) + delta_sig * delta_trunc)
         IN  [bail |-> FALSE,
              last |-> Store(last, channel, new_value),
              target |-> clamped,
              new |-> new_value,
              cmd_buf |-> <<FRAME_SYNC, FRAME_CMD, Selector(channel), AsU8(new_value)>>,
              overflow |-> CHANNEL_BASE + channel > 255]

\* One call of set_vu.  wr is how many bytes the sink took: 4 is write_all
\* succeeding, fewer is an I/O error, before any byte or after a partial write.  Gives the
\* call's result: "ok", "bail" (Err before anything happened), "io" (Err
\* from write_all) or "panic" (overflow check of 0x30 + channel).
SetVuCall(channel, g, wr) ==
    \E r \in {set_vu(LAST_VAL, channel, g)} :
      \E res \in {IF r.bail THEN "bail"
                  ELSE IF r.overflow /\ build = "debug" THEN "panic"
                  ELSE IF wr = 4 THEN "ok" ELSE "io"} :
        /\ LAST_VAL' = r.last
        /\ lastCall' = [channel |-> channel, target |-> r.target,
                        new |-> r.new, result |-> res,
                        written |-> IF res \in {"ok", "io"}
                                    THEN SubSeq(r.cmd_buf, 1, wr) ELSE <<>>]

WriteOutcomes == 0..4

----------------------------------------------------------------------------
(* hello *)

HelloLen == 256 + 128 + 128 + 256
\* the chain without the first .rev(): 128..=255 twice
HelloItem_NoRev(k) ==
    IF k <= 256 THEN k - 1
    ELSE IF k <= 384 THEN 128 + (k - 257)
    ELSE IF k <= 512 THEN 128 + (k - 385)
    ELSE 255 - (k - 513)
\* (0i16..=255).chain((128..=255).rev()).chain(128..=255).chain((0..=255).rev())
HelloItem(k) ==
    IF k <= 256 THEN k - 1
    ELSE IF k <= 384 THEN 255 - (k - 257)
    ELSE IF k <= 512 THEN 128 + (k - 385)
    ELSE 255 - (k - 513)
HelloChannels == 1..3
----------------------------------------------------------------------------
(* What a call gives: Ok(v), Err(e) of anyhow::Result, or a panic *)

Ok(v) == [kind |-> "ok", val |-> v]
Err(why) == [kind |-> "err", val |-> why]
Panic(why) == [kind |-> "panic", val |-> why]

----------------------------------------------------------------------------
(* Sorting of f64 values, largest first:                                    *)
(* sort_by(|a, b| b.partial_cmp(a).unwrap_or(Ordering::Equal))             *)

\* The outcomes of the sort of s.  The comparison takes a NaN as equal to
\* everything: it is a total order when s has no NaN or no two entries that
\* differ.  Then, and on every s of up to 20 entries, the sort is the stable
\* one, an entry going before the first that is not larger.  On a longer s
\* without a total order the library either panics or leaves the entries
\* in an order it does not specify.
SortDesc(s) ==
    LET RECURSIVE Insert(_, _)
        Insert(x, t) ==
            IF t = <<>> THEN <<x>>
            ELSE IF ~FLess(x, Head(t)) THEN <<x>> \o t
            ELSE <<Head(t)>> \o Insert(x, Tail(t))
        RECURSIVE Stable(_)
        Stable(t) == IF t = <<>> THEN <<>> ELSE Insert(Head(t), Stable(Tail(t)))
        total == \/ \A i \in DOMAIN s : s[i].kind # "nan"
                 \/ \A i, j \in DOMAIN s : ~FLess(s[i], s[j])
        Count(t, x) == Cardinality({i \in DOMAIN t : t[i] = x})
    IN  IF Len(s) <= 20 \/ total THEN {Ok(Stable(s))}
        ELSE {Panic("sort_by: the comparison is not a total order")}
             \cup {r \in [kind : {"ok"}, val : [DOMAIN s -> {s[i] : i \in DOMAIN s}]] :
                     \A i \in DOMAIN s : Count(r.val, s[i]) = Count(s, s[i])}

----------------------------------------------------------------------------
(* Pseudo-files.  A file is [open, lines]: open = FALSE is File::open (or a *)
(* read) failing.  What a line is depends on the file:                     *)
(*   /proc/stat       [cpu, nitems, idle]: items[0] starts with "cpu", the *)
(*                    number of items, items[4] parsed                     *)
(*   /proc/diskstats  [nitems, devname, sect_rd, sect_wrt]: devname is the *)
(*                    sequence of the characters of items[2]               *)
(*   statistics/*     the line, parsed                                     *)

\* str::parse::<i64>() of a field: <<v>> is Ok(v), <<>> is Err
Bad == <<>>
Parsed(v) == <<v>>

----------------------------------------------------------------------------
(* IfStats *)

\* IfStats::read_number
read_number(file) ==
    IF ~file.open THEN Err("io")
    ELSE IF Len(file.lines) > 0
         THEN IF file.lines[1] = Bad THEN Err("parse") ELSE Ok(file.lines[1][1])
         ELSE Err("empty")

\* IfStats::new: the seeding read
IfStats_new(file) == read_number(file)

\* IfStats::bitrate: val is [rate, cnt], rate an i64 and cnt the new
\* prev_cnt.  The counters are within 31 bits, so that cnt - prev_cnt and
\* 8 times it are within i64
bitrate(prev_cnt, file, us) ==
    LET r == read_number(file)
        d == I64Sub(I64Of(r.val), I64Of(prev_cnt)).val
        bits == [neg |-> d.neg, n |-> NMul(d.n, <<8>>)]
    IN  IF r.kind # "ok" THEN r
        ELSE Ok([rate |-> F64AsI64(FDiv(I64AsF64(bits),
                                        FDiv(FInt(us), FInt(MICROS_PER_SEC)))),
                 cnt |-> r.val])

----------------------------------------------------------------------------
(* CpuStats *)

\* CpuStats::read_cpuidle: the loop over the lines, from line i on
RECURSIVE read_cpuidle_from(_, _, _)
read_cpuidle_from(lines, i, cpu_idle) ==
    IF i > Len(lines) THEN Ok(cpu_idle)
    ELSE LET line == lines[i]
         IN  IF line.nitems = 0 THEN Panic("items[0]")
             ELSE IF ~line.cpu THEN Ok(cpu_idle)
             ELSE IF line.nitems < 5 THEN Panic("items[4]")
             ELSE IF line.idle = Bad THEN Err("parse")
             ELSE read_cpuidle_from(lines, i + 1, Append(cpu_idle, line.idle[1]))

read_cpuidle(file) ==
    IF ~file.open THEN Err("io") ELSE read_cpuidle_from(file.lines, 1, <<>>)

\* CpuStats::new: the seeding read
CpuStats_new(file) == read_cpuidle(file)

\* usize of a 64 bit target: four limbs of 16 bits, the most significant
\* first.  usize::MAX, the wrapped result of 0 - 1
USIZE_MAX == <<65535, 65535, 65535, 65535>>
\* u >= k for a small k
USizeAtLeast(u, k) == u[1] > 0 \/ u[2] > 0 \/ u[3] > 0 \/ u[4] >= k

\* CpuStats::n_cpu: prev_idle.len() - 1 in usize
CpuStats_n_cpu(prev_idle, bld) ==
    IF Len(prev_idle) = 0
    THEN IF bld = "debug" THEN Panic("n_cpu: subtract with overflow") ELSE Ok(USIZE_MAX)
    ELSE Ok(<<0, 0, 0, Len(prev_idle) - 1>>)

\* the rate of entry i: 100.0 - ((factor * (r - prev_idle[i])) / factor2)
CpuRate(i, r, prev, factor, n_cpu_f) ==
    LET factor2 == IF i = 1 THEN n_cpu_f ELSE FInt(1)
    IN  FSub(FInt(100), FDiv(FMul(factor, FInt(r - prev)), factor2))

\* CpuStats::cpurates, its outcomes: val is [rates, idle], idle the new
\* prev_idle
cpurates(prev_idle, file, us, bld) ==
    LET rd == read_cpuidle(file)
    IN  IF rd.kind # "ok" THEN {rd}
        ELSE LET idle == rd.val
                 n == Len(idle)
             IN  IF n = 0
                 THEN IF bld = "debug" THEN {Panic("idle.len() - 1: subtract with overflow")}
                      ELSE {Panic("rates[1..]: slice start out of range")}
                 ELSE IF n > Len(prev_idle) THEN {Panic("prev_idle[i]")}
                 ELSE LET factor == FDiv(FMul(FInt(100), FInt(MICROS_PER_SEC)),
                                         FMul(FInt(us), FInt(CPU_JIFF)))
                          n_cpu_f == FInt(n - 1)
                          rates == [i \in 1..n |->
                                      CpuRate(i, idle[i], prev_idle[i], factor, n_cpu_f)]
                      IN  {IF so.kind # "ok" THEN so
                           ELSE Ok([rates |-> <<rates[1]>> \o so.val, idle |-> idle]) :
                              so \in SortDesc(Tail(rates))}

\* no scaling of the average
CpuGaugeScale_None(g) == g
\* the CPU gauge of main: cpu_rates[k] of the source is rates[k + 1] here
CpuGaugeScale(g) == FMul(g, FLit(256, 100))

CpuGauge(n, rates) ==
    LET need == IF USizeAtLeast(n, 6) THEN 7 ELSE IF USizeAtLeast(n, 4) THEN 5
                ELSE IF USizeAtLeast(n, 2) THEN 3 ELSE 2
        r(k) == rates[k + 1]
        top == IF USizeAtLeast(n, 2) THEN FDiv(FAdd(r(1), r(2)), FInt(2)) ELSE r(1)
    IN  IF Len(rates) < need THEN Panic("cpu_rates[k]")
        ELSE IF USizeAtLeast(n, 6)
             THEN Ok(FAdd(FAdd(top, FDiv(FAdd(r(3), r(4)), FInt(2))),
                          FDiv(FAdd(r(5), r(6)), FInt(3))))
        ELSE IF USizeAtLeast(n, 4)
             THEN Ok(FAdd(top, FMul(FAdd(r(3), r(4)), FLit(80, 100))))
        ELSE Ok(CpuGaugeScale(top))

----------------------------------------------------------------------------
(* DiskStats *)

StartsWith(s, p) == Len(s) >= Len(p) /\ SubSeq(s, 1, Len(p)) = p

\* devname.starts_with("sd") && devname.len() == 3
\*   || devname.starts_with("nvme") && devname.len() == 7
DevMatches(devname) ==
    \/ StartsWith(devname, <<"s", "d">>) /\ Len(devname) = 3
    \/ StartsWith(devname, <<"n", "v", "m", "e">>) /\ Len(devname) = 7

\* stats.insert(devname, (sect_rd, sect_wrt)) on a map kept as a function
MapInsert(m, k, v) == [x \in DOMAIN m \cup {k} |-> IF x = k THEN v ELSE m[x]]
EmptyMap == [x \in {} |-> <<0, 0>>]

\* DiskStats::read_diskstats: the loop over the lines, from line i on
RECURSIVE read_diskstats_from(_, _, _)
read_diskstats_from(lines, i, stats) ==
    IF i > Len(lines) THEN Ok(stats)
    ELSE LET line == lines[i]
         IN  IF line.nitems < 3 THEN Panic("items[2]")
             ELSE IF ~DevMatches(line.devname)
                  THEN read_diskstats_from(lines, i + 1, stats)
             ELSE IF line.nitems < 6 THEN Panic("items[5]")
             ELSE IF line.sect_rd = Bad THEN Err("parse")
             ELSE IF line.nitems < 10 THEN Panic("items[9]")
             ELSE IF line.sect_wrt = Bad THEN Err("parse")
             ELSE read_diskstats_from(lines, i + 1,
                      MapInsert(stats, line.devname,
                                <<line.sect_rd[1], line.sect_wrt[1]>>))

read_diskstats(file) ==
    IF ~file.open THEN Err("io") ELSE read_diskstats_from(file.lines, 1, EmptyMap)

\* DiskStats::new: the seeding read
DiskStats_new(file) == read_diskstats(file)

\* the body of the loop "for (k, v) in &stats" for the keys of order, in order
RECURSIVE DiskRatesLoop(_, _, _, _, _)
DiskRatesLoop(order, stats, prev_stats, us, rates) ==
    IF order = <<>> THEN rates
    ELSE LET k == Head(order)
             v == stats[k]
         IN  IF k \notin DOMAIN prev_stats
             THEN DiskRatesLoop(Tail(order), stats, prev_stats, us, rates)
             ELSE LET prev == prev_stats[k]
                      sect_rd == v[1] - prev[1]
                      sect_wrt == v[2] - prev[2]
                  IN  DiskRatesLoop(Tail(order), stats, prev_stats, us,
                          Append(rates, FDiv(FMul(FInt(sect_rd + sect_wrt),
                                                  FInt(MICROS_PER_SEC)),
                                             FInt(us))))

\* the rates left in the order of the loop
DiskSort_None(rates) == {Ok(rates)}
\* the final rates.sort_by of diskrates
DiskSort(rates) == SortDesc(rates)

\* DiskStats::diskrates, its outcomes: val is [rates, stats], stats the new
\* prev_stats.  order is the order in which the HashMap yields its keys.
diskrates(prev_stats, file, us, order) ==
    LET rd == read_diskstats(file)
    IN  IF rd.kind # "ok" THEN {rd}
        ELSE {IF so.kind # "ok" THEN so ELSE Ok([rates |-> so.val, stats |-> rd.val]) :
                 so \in DiskSort(DiskRatesLoop(order, rd.val, prev_stats, us, <<>>))}

\* the orders a HashMap with the keys of m can yield
Orders(m) ==
    {o \in [1..Cardinality(DOMAIN m) -> DOMAIN m] :
        \A i, j \in DOMAIN o : i # j => o[i] # o[j]}

\* the disk gauge of main: 256.0 * disk_rates[0] / 200_000.0
DiskGauge(rates) ==
    IF Len(rates) = 0 THEN Panic("disk_rates[0]")
    ELSE Ok(FDiv(FMul(FInt(GAUGE_SPAN), rates[1]), FInt(DISK_FULL_SCALE)))

----------------------------------------------------------------------------
(* the network gauge of main *)

NET_RMINUS == FInt(NET_ZERO - GAUGE_MIN)
NET_FMINUS == FLit(83, 100)
NET_RPLUS == FInt(GAUGE_MAX - NET_ZERO)
NET_FPLUS == FLit(43, 100)

\* let rate = rx_rate - tx_rate; ... let net_gauge = NET_ZERO + range * ...;
\* the subtraction is in i64: beyond the type it panics in a debug build and
\* wraps in a release build
NetGauge(rxr, txr, max_mbps, bld) ==
    LET sub == I64Sub(rxr, txr)
        rate == sub.val
        range == IF ~rate.neg THEN FMul(NET_RPLUS, NET_FPLUS)
                 ELSE FMul(NET_RMINUS, NET_FMINUS)
    IN  IF sub.overflow /\ bld = "debug"
        THEN Panic("rx_rate - tx_rate: subtract with overflow")
        ELSE Ok(FAdd(FInt(NET_ZERO),
                     FMul(range, FDiv(FDiv(I64AsF64(rate), FInt(MICROS_PER_SEC)),
                                      FInt(max_mbps)))))
----------------------------------------------------------------------------
(* The environment: what the pseudo-files, the clock and the sink can give *)

\* bounds of the inputs
MaxIdleSteps == 3
MaxSectSteps == 4
MaxByteSteps == 1

\* the units the counters of the inputs move in
IdleQuantum == 4
SectQuantum == 100
ByteQuantum == 625000

\* microseconds between two reads of a source
MainUs == {200000}

\* processing times of an iteration, as start.elapsed() gives them
ElapsedChoices ==
    { [secs |-> 0, nanos |-> 1000000],
      [secs |-> 0, nanos |-> 200000000],
      [secs |-> 0, nanos |-> 500000001],
      [secs |-> 4, nanos |-> 300000000] }

Unreadable == [open |-> FALSE, lines |-> <<>>]
NoLines == [open |-> TRUE, lines |-> <<>>]

\* /proc/stat
CpuLine(v) == [cpu |-> TRUE, nitems |-> 11, idle |-> Parsed(v)]
IntrLine == [cpu |-> FALSE, nitems |-> 4, idle |-> Bad]
RECURSIVE SumSeq(_)
SumSeq(s) == IF s = <<>> THEN 0 ELSE Head(s) + SumSeq(Tail(s))
\* the file of a machine whose cores have the idle counters v
CpuFile(v) ==
    [open |-> TRUE,
     lines |-> <<CpuLine(SumSeq(v))>> \o [i \in 1..Len(v) |-> CpuLine(v[i])]
               \o <<IntrLine>>]
CoreVectors ==
    UNION { [1..n -> {k * IdleQuantum : k \in 0..MaxIdleSteps}] : n \in {1, 2} }
    \cup { [i \in 1..n |-> IF i % 2 = 1 THEN a ELSE b] :
             n \in {4, 6}, a \in {0, MaxIdleSteps * IdleQuantum}, b \in {0, IdleQuantum} }
CpuFilesBroken ==
    { Unreadable, NoLines,
      [open |-> TRUE, lines |-> <<[cpu |-> TRUE, nitems |-> 11, idle |-> Bad]>>],
      [open |-> TRUE, lines |-> <<[cpu |-> TRUE, nitems |-> 3, idle |-> Bad]>>],
      [open |-> TRUE, lines |-> <<CpuLine(0), IntrLine>>] }
CpuFiles == {CpuFile(v) : v \in CoreVectors} \cup CpuFilesBroken
MainCpuFiles ==
    {CpuFile(<<0, 0>>), CpuFile(<<2 * IdleQuantum, 3 * IdleQuantum>>)} \cup CpuFilesBroken

\* /proc/diskstats
sda == <<"s", "d", "a">>
nvme0n1 == <<"n", "v", "m", "e", "0", "n", "1">>
DiskLine(dev, k) ==
    [nitems |-> 14, devname |-> dev,
     sect_rd |-> Parsed(k * SectQuantum), sect_wrt |-> Parsed(k * SectQuantum)]
Devs == {sda, nvme0n1}
RECURSIVE DiskLines(_, _)
DiskLines(ds, m) ==
    IF ds = <<>> THEN <<>>
    ELSE (IF Head(ds) \in DOMAIN m THEN <<DiskLine(Head(ds), m[Head(ds)])>> ELSE <<>>)
         \o DiskLines(Tail(ds), m)
\* the file of a machine whose matched devices have the counters m, and a
\* partition line that the name filter drops
DiskFile(m) ==
    [open |-> TRUE, lines |-> DiskLines(<<sda, nvme0n1>>, m) \o <<DiskLine(<<"s", "d", "a", "1">>, 1)>>]
DiskFilesBroken ==
    { Unreadable, NoLines,
      [open |-> TRUE, lines |-> <<[nitems |-> 14, devname |-> sda,
                                   sect_rd |-> Bad, sect_wrt |-> Parsed(0)]>>],
      [open |-> TRUE, lines |-> <<[nitems |-> 2, devname |-> sda,
                                   sect_rd |-> Bad, sect_wrt |-> Bad]>>] }
DiskFiles ==
    {DiskFile(m) : m \in UNION {[D -> 0..MaxSectSteps] : D \in SUBSET Devs}}
    \cup DiskFilesBroken
MainDiskFiles ==
    {DiskFile(EmptyMap),
     DiskFile(MapInsert(MapInsert(EmptyMap, sda, 1), nvme0n1, 0))} \cup DiskFilesBroken

\* /sys/class/net/<if>/statistics/{rx,tx}_bytes
NetFilesBroken == {Unreadable, NoLines, [open |-> TRUE, lines |-> <<Bad>>]}
NetFiles ==
    {[open |-> TRUE, lines |-> <<Parsed(k * ByteQuantum)>>] : k \in 0..MaxByteSteps}
    \cup NetFilesBroken

----------------------------------------------------------------------------
(* main *)

cfgVars == <<build, opts>>
vuVars == <<LAST_VAL, lastCall>>
srcVars == <<cpustats, n_cpu, rx, tx, diskstats>>
timeVars == <<sleep_ns, elapsed_ns, slept>>
tickVars == <<cpu_rates, disk_rates, gauge, rx_rate, tx_rate, tickLog, seen>>

\* no thread::sleep of the loop yet
NoSleep == <<>>
NoSeen == [prev |-> <<>>, cur |-> <<>>, us |-> 0]
NoFault == [why |-> "", input |-> "", at |-> ""]

NoGauge == FInt(0)

\* the defaults of OptsCommon
DefaultOpts == [samplerate |-> 5, max_mbps |-> 100]

InitCommon ==
    /\ build \in {"debug", "release"}
    /\ lastCall = NoCall
    /\ helloPos = <<1, 1>>
    /\ sleep_ns = U32Of(0) /\ elapsed_ns = U32Of(0) /\ slept = NoSleep
    /\ cpu_rates = <<>> /\ disk_rates = <<>> /\ gauge = NoGauge /\ rx_rate = I64Of(0) /\ tx_rate = I64Of(0)
    /\ tickLog = <<>> /\ seen = NoSeen
    /\ fault = NoFault
    /\ hold = [channel |-> 0, gauge |-> 0, calls |-> 0, from |-> 0]

\* main() before its loop: the sink opened, hello run, the four sources
\* constructed in this order, and the first sleep of the loop
Booted == <<"open", "hello", "cpu", "rx", "tx", "disk", "sleep">>

NoSources ==
    cpustats = Unset /\ n_cpu = <<0, 0, 0, 0>> /\ rx = Unset /\ tx = Unset /\ diskstats = Unset

Init ==
    /\ pc = "open" /\ InitCommon /\ LAST_VAL = ZeroArray /\ NoSources
    /\ boot = <<>>
    /\ opts \in [samplerate : {0, 5}, max_mbps : {100}]

\* main() returns Err(why) (kind "err"), or panics (kind "panic"); input is
\* the shape of the file that was being read, at is where main() was
Stop(kind, why, input) ==
    pc' = kind /\ fault' = [why |-> why, input |-> input, at |-> pc]

\* how a Result of a source reading file f ends main()
StopBy(r, f) ==
    Stop(r.kind, r.val,
         IF ~f.open THEN "unreadable" ELSE IF Len(f.lines) = 0 THEN "no lines" ELSE "lines")

\* OpenOptions::new().read(true).write(true).open(&opts.port)?
Open ==
    /\ pc = "open"
    /\ \E ok \in BOOLEAN :
         IF ok THEN pc' = "hello" /\ fault' = fault
         ELSE Stop("err", "io", "sink")
    /\ UNCHANGED <<cfgVars, vuVars, helloPos, srcVars, timeVars, tickVars>>
    /\ boot' = IF pc' = "hello" THEN Append(boot, "open") ELSE boot
    /\ UNCHANGED hold

\* the position after <<k, c>> in the nested loops of hello
HelloNext(pos) ==
    IF pos[2] < 3 THEN <<pos[1], pos[2] + 1>> ELSE <<pos[1] + 1, 1>>

\* hello(&mut ser)?: one set_vu(ser, c, i)? of the nested loops
HelloStep ==
    /\ pc = "hello"
    /\ \E wr \in WriteOutcomes :
         /\ SetVuCall(helloPos[2], HelloItem(helloPos[1]), wr)
         /\ IF wr = 4
            THEN /\ helloPos' = HelloNext(helloPos)
                 /\ pc' = IF helloPos'[1] > HelloLen THEN "cpu_new" ELSE "hello"
                 /\ fault' = fault
            ELSE Stop("err", "io", "sink") /\ helloPos' = helloPos
    /\ UNCHANGED <<cfgVars, srcVars, timeVars, tickVars>>
    /\ boot' = IF pc' = "cpu_new" THEN Append(boot, "hello") ELSE boot
    /\ UNCHANGED hold

\* let mut cpustats = CpuStats::new()?; let n_cpu = cpustats.n_cpu();
CpuNew ==
    /\ pc = "cpu_new"
    /\ \E f \in MainCpuFiles :
         \E r \in {CpuStats_new(f)} :
         \E n \in {IF r.kind = "ok" THEN CpuStats_n_cpu(r.val, build) ELSE r} :
             IF r.kind # "ok" THEN StopBy(r, f) /\ UNCHANGED <<cpustats, n_cpu>>
             ELSE IF n.kind # "ok" THEN StopBy(n, f) /\ cpustats' = r.val /\ n_cpu' = n_cpu
             ELSE pc' = "rx_new" /\ fault' = fault /\ cpustats' = r.val /\ n_cpu' = n.val
    /\ UNCHANGED <<cfgVars, vuVars, helloPos, rx, tx, diskstats, timeVars, tickVars>>
    /\ boot' = IF pc' = "rx_new" THEN Append(boot, "cpu") ELSE boot
    /\ UNCHANGED hold

\* let mut rx = IfStats::new(&opts.interface, IfCounter::Rx)?;
RxNew ==
    /\ pc = "rx_new"
    /\ \E f \in NetFiles :
         \E r \in {IfStats_new(f)} :
             IF r.kind # "ok" THEN StopBy(r, f) /\ rx' = rx
             ELSE pc' = "tx_new" /\ fault' = fault /\ rx' = r.val
    /\ UNCHANGED <<cfgVars, vuVars, helloPos, cpustats, n_cpu, tx, diskstats,
                   timeVars, tickVars>>
    /\ boot' = IF pc' = "tx_new" THEN Append(boot, "rx") ELSE boot
    /\ UNCHANGED hold

\* let mut tx = IfStats::new(&opts.interface, IfCounter::Tx)?;
TxNew ==
    /\ pc = "tx_new"
    /\ \E f \in NetFiles :
         \E r \in {IfStats_new(f)} :
             IF r.kind # "ok" THEN StopBy(r, f) /\ tx' = tx
             ELSE pc' = "disk_new" /\ fault' = fault /\ tx' = r.val
    /\ UNCHANGED <<cfgVars, vuVars, helloPos, cpustats, n_cpu, rx, diskstats,
                   timeVars, tickVars>>
    /\ boot' = IF pc' = "disk_new" THEN Append(boot, "tx") ELSE boot
    /\ UNCHANGED hold

\* the loop entered without the read of DiskStats::new
DiskNew_Skipped ==
    /\ pc = "disk_new" /\ pc' = "loop_init"
    /\ UNCHANGED <<cfgVars, vuVars, helloPos, srcVars, timeVars, tickVars, boot, fault>>
    /\ UNCHANGED hold
\* let mut diskstats = DiskStats::new()?;
DiskNew ==
    /\ pc = "disk_new"
    /\ \E f \in MainDiskFiles :
         \E r \in {DiskStats_new(f)} :
             IF r.kind # "ok" THEN StopBy(r, f) /\ diskstats' = diskstats
             ELSE pc' = "loop_init" /\ fault' = fault /\ diskstats' = r.val
    /\ UNCHANGED <<cfgVars, vuVars, helloPos, cpustats, n_cpu, rx, tx,
                   timeVars, tickVars>>
    /\ boot' = IF pc' = "loop_init" THEN Append(boot, "disk") ELSE boot
    /\ UNCHANGED hold

\* let sleep_ns: u32 = 1_000_000_000 / (opts.samplerate as u32);
SleepNs(samplerate) ==
    IF samplerate = 0 THEN Panic("attempt to divide by zero")
    ELSE Ok(U32Of(NANOS_PER_SEC \div samplerate))

\* let mut elapsed_ns = 0; let sleep_ns = ...;
LoopInit ==
    /\ pc = "loop_init"
    /\ \E r \in {SleepNs(opts.samplerate)} :
           IF r.kind # "ok"
           THEN Stop(r.kind, r.val, "") /\ UNCHANGED <<sleep_ns, elapsed_ns>>
           ELSE /\ pc' = "sleep" /\ fault' = fault
                /\ sleep_ns' = r.val /\ elapsed_ns' = U32Of(0)
    /\ UNCHANGED <<cfgVars, vuVars, helloPos, srcVars, slept, tickVars>>
    /\ UNCHANGED boot
    /\ UNCHANGED hold

\* the argument of thread::sleep: sleep_ns - elapsed_ns in u32
SleepArg(period, elapsed, bld) ==
    IF U32Less(period, elapsed) /\ bld = "debug"
    THEN Panic("attempt to subtract with overflow")
    ELSE Ok(U32WrappingSub(period, elapsed))

\* thread::sleep(time::Duration::new(0, sleep_ns - elapsed_ns));
\* let start = time::Instant::now();
Sleep ==
    /\ pc = "sleep"
    /\ \E r \in {SleepArg(sleep_ns, elapsed_ns, build)} :
           IF r.kind # "ok" THEN Stop(r.kind, r.val, "") /\ UNCHANGED <<slept, tickVars>>
           ELSE /\ pc' = "cpu_read" /\ fault' = fault
                /\ slept' = r.val
                /\ cpu_rates' = <<>> /\ disk_rates' = <<>> /\ gauge' = NoGauge
                /\ rx_rate' = I64Of(0) /\ tx_rate' = I64Of(0) /\ tickLog' = <<>> /\ seen' = NoSeen
    /\ UNCHANGED <<cfgVars, vuVars, helloPos, srcVars, sleep_ns, elapsed_ns>>
    /\ boot' = IF pc' = "cpu_read" /\ boot # Booted THEN Append(boot, "sleep") ELSE boot
    /\ UNCHANGED hold

\* let cpu_rates = cpustats.cpurates()?; let mut cpu_gauge = ...;
CpuStage(files, uss) ==
    /\ pc = "cpu_read"
    /\ \E f \in files, us \in uss :
         \E r \in cpurates(cpustats, f, us, build) :
         \E g \in {IF r.kind = "ok" THEN CpuGauge(n_cpu, r.val.rates) ELSE r} :
             /\ IF r.kind # "ok"
                THEN StopBy(r, f) /\ UNCHANGED <<cpustats, cpu_rates, gauge, tickLog>>
                ELSE /\ cpustats' = r.val.idle
                     /\ cpu_rates' = r.val.rates
                     /\ tickLog' = Append(tickLog, <<"read_cpu", 0>>)
                     /\ IF g.kind # "ok" THEN StopBy(g, f) /\ gauge' = gauge
                        ELSE pc' = "cpu_write" /\ fault' = fault /\ gauge' = g.val
    /\ UNCHANGED <<cfgVars, vuVars, helloPos, n_cpu, rx, tx, diskstats, timeVars,
                   disk_rates, rx_rate, tx_rate, seen>>
    /\ UNCHANGED boot
    /\ UNCHANGED hold

\* set_vu(&mut ser, channel, gauge as i16)? of the loop.  The rates and the
\* gauge of the stage are dead after it (they are only logged).  ends: the
\* iteration ends with this write, and next is the start of a new one.
StageWrite(at, channel, next, ends) ==
    /\ pc = at
    /\ \E wr \in WriteOutcomes :
         /\ SetVuCall(channel, F64AsInt(gauge, I16_MIN, I16_MAX), wr)
         /\ IF wr = 4
            THEN /\ pc' = next /\ fault' = fault
                 /\ tickLog' = IF ends THEN <<>> ELSE Append(tickLog, <<"frame", channel>>)
            ELSE Stop("err", "io", "sink") /\ tickLog' = tickLog
    /\ cpu_rates' = <<>> /\ disk_rates' = <<>> /\ gauge' = NoGauge
    /\ rx_rate' = I64Of(0) /\ tx_rate' = I64Of(0) /\ seen' = NoSeen
    /\ UNCHANGED <<cfgVars, helloPos, srcVars, timeVars>>
    /\ UNCHANGED boot
    /\ UNCHANGED hold

CpuRead == CpuStage(MainCpuFiles, MainUs)

\* set_vu(&mut ser, 1, cpu_gauge as i16)?;
CpuWrite == StageWrite("cpu_write", 1, "disk_read", FALSE)

\* let disk_rates = diskstats.diskrates()?; let disk_gauge = ...;
DiskStage(files, uss) ==
    /\ pc = "disk_read"
    /\ \E f \in files, us \in uss :
         \E rd \in {read_diskstats(f)} :
         \E order \in (IF rd.kind = "ok" THEN Orders(rd.val) ELSE {<<>>}) :
         \E r \in diskrates(diskstats, f, us, order) :
         \E g \in {IF r.kind = "ok" THEN DiskGauge(r.val.rates) ELSE r} :
                   /\ IF r.kind # "ok"
                      THEN StopBy(r, f)
                           /\ UNCHANGED <<diskstats, disk_rates, gauge, tickLog, seen>>
                      ELSE /\ diskstats' = r.val.stats
                           /\ disk_rates' = r.val.rates
                           /\ seen' = [prev |-> diskstats, cur |-> r.val.stats,
                                       us |-> us]
                           /\ tickLog' = Append(tickLog, <<"read_disk", 0>>)
                           /\ IF g.kind # "ok" THEN StopBy(g, f) /\ gauge' = gauge
                              ELSE pc' = "disk_write" /\ fault' = fault
                                   /\ gauge' = g.val
    /\ UNCHANGED <<cfgVars, vuVars, helloPos, cpustats, n_cpu, rx, tx, timeVars,
                   cpu_rates, rx_rate, tx_rate>>
    /\ UNCHANGED boot
    /\ UNCHANGED hold

DiskRead == DiskStage(MainDiskFiles, MainUs)

\* the disk gauge sent to the channel of the network
DiskWrite_Net == StageWrite("disk_write", 3, "rx_read", FALSE)
\* set_vu(&mut ser, 2, disk_gauge as i16)?;
DiskWrite == StageWrite("disk_write", 2, "rx_read", FALSE)

\* let rx_rate = rx.bitrate()?;
RxRead ==
    /\ pc = "rx_read"
    /\ \E f \in NetFiles, us \in MainUs :
         \E r \in {bitrate(rx, f, us)} :
             /\ IF r.kind # "ok" THEN StopBy(r, f) /\ UNCHANGED <<rx, rx_rate, tickLog>>
                ELSE /\ pc' = "tx_read" /\ fault' = fault
                     /\ rx' = r.val.cnt /\ rx_rate' = r.val.rate
                     /\ tickLog' = Append(tickLog, <<"read_rx", 0>>)
    /\ UNCHANGED <<cfgVars, vuVars, helloPos, cpustats, n_cpu, tx, diskstats, timeVars,
                   cpu_rates, disk_rates, gauge, tx_rate, seen>>
    /\ UNCHANGED boot
    /\ UNCHANGED hold

\* let tx_rate = tx.bitrate()?; let rate = rx_rate - tx_rate; let net_gauge = ...;
TxRead ==
    /\ pc = "tx_read"
    /\ \E f \in NetFiles, us \in MainUs :
         \E r \in {bitrate(tx, f, us)} :
         \E g \in {IF r.kind = "ok"
                    THEN NetGauge(rx_rate, r.val.rate, opts.max_mbps, build) ELSE r} :
             /\ IF r.kind # "ok" THEN StopBy(r, f) /\ UNCHANGED <<tx, tx_rate, gauge, tickLog>>
                ELSE /\ tx' = r.val.cnt /\ tx_rate' = r.val.rate
                     /\ tickLog' = Append(tickLog, <<"read_tx", 0>>)
                     /\ IF g.kind # "ok" THEN StopBy(g, f) /\ gauge' = gauge
                        ELSE pc' = "net_write" /\ fault' = fault /\ gauge' = g.val
    /\ UNCHANGED <<cfgVars, vuVars, helloPos, cpustats, n_cpu, rx, diskstats, timeVars,
                   cpu_rates, disk_rates, rx_rate, seen>>
    /\ UNCHANGED boot
    /\ UNCHANGED hold

\* set_vu(&mut ser, 3, net_gauge as i16)?;
NetWrite == StageWrite("net_write", 3, "elapsed", FALSE)

\* elapsed_ns = start.elapsed().as_nanos() as u32;
Elapsed ==
    /\ pc = "elapsed"
    /\ \E d \in ElapsedChoices : elapsed_ns' = DurationAsNanosU32(d)
    /\ pc' = "sleep"
    /\ UNCHANGED <<cfgVars, vuVars, helloPos, srcVars, sleep_ns, slept, tickVars, fault>>
    /\ UNCHANGED boot
    /\ UNCHANGED hold

Next ==
    \/ Open \/ HelloStep
    \/ CpuNew \/ RxNew \/ TxNew \/ DiskNew \/ LoopInit
    \/ Sleep \/ CpuRead \/ CpuWrite \/ DiskRead \/ DiskWrite
    \/ RxRead \/ TxRead \/ NetWrite \/ Elapsed

Spec == Init /\ [][Next]_vars
----------------------------------------------------------------------------
(* set_vu on its own: any sequence of calls, from the process-initial       *)
(* LAST_VAL                                                                 *)

MaxGaugeSteps == 1
GaugeStride == 100
VuGauges == {I16_MIN, I16_MAX} \cup {k * GaugeStride : k \in 0..MaxGaugeSteps}

InitVu ==
    /\ pc = "vu" /\ InitCommon /\ LAST_VAL = ZeroArray /\ NoSources
    /\ boot = <<>>
    /\ opts = DefaultOpts

VuCall(channels) ==
    /\ pc = "vu"
    /\ \E c \in channels, g \in VuGauges, wr \in WriteOutcomes :
         SetVuCall(c, g, wr)
    /\ IF lastCall'.result = "panic"
       THEN Stop("panic", "0x30 + channel: add with overflow", "")
       ELSE pc' = pc /\ fault' = fault
    /\ UNCHANGED <<cfgVars, helloPos, srcVars, timeVars, tickVars>>
    /\ UNCHANGED boot
    /\ UNCHANGED hold

\* the channels main() uses
MeterCall == VuCall(HelloChannels)
SpecVu == InitVu /\ [][MeterCall]_vars

\* channels up to the largest u8, around the limit CHANNELS_NUM
EdgeCall == VuCall({1, CHANNELS_NUM - 1, CHANNELS_NUM, 255})
SpecVuEdge == InitVu /\ [][EdgeCall]_vars

\* set_vu with the target of one channel held constant: the caller passes
\* the same gauge to the channel call after call, as main() does while a
\* source stays at one rate, and anything to the other channel; two
\* channels, 1 and 2, are called.  The calls of a hold are counted up to
\* MaxHeldCalls
MaxHeldCalls == 4

\* a call on a channel with no held target
FreeCall ==
    /\ pc = "vu"
    /\ \E c \in {1, 2} \ {hold.channel}, g \in VuGauges, wr \in WriteOutcomes :
         SetVuCall(c, g, wr)
    /\ UNCHANGED <<pc, fault, hold, boot, cfgVars, helloPos, srcVars, timeVars, tickVars>>

\* a call that passes a channel the gauge of its previous call again; the
\* first of them is the one that begins to hold the gauge
HeldCall ==
    /\ pc = "vu"
    /\ \E c \in {1, 2}, g \in VuGauges, wr \in WriteOutcomes :
         /\ hold.channel = 0 \/ (hold.channel = c /\ hold.gauge = g)
         /\ SetVuCall(c, g, wr)
         /\ hold' = [channel |-> c, gauge |-> g,
                     calls |-> Min(hold.calls + 1, MaxHeldCalls),
                     from |-> IF hold.channel = 0 THEN At(LAST_VAL, c) ELSE hold.from]
    /\ UNCHANGED <<pc, fault, boot, cfgVars, helloPos, srcVars, timeVars, tickVars>>

SpecHold == InitVu /\ [][FreeCall \/ HeldCall]_vars

----------------------------------------------------------------------------
(* One stage of the loop on its own, over all the inputs of its source.     *)
(* The stage starts as hello leaves the meter: LAST_VAL = 28 on 1..3.       *)

AfterHello == [c \in HelloChannels |-> GAUGE_MIN]


InitCpu ==
    /\ InitCommon /\ boot = Booted
    /\ pc = "cpu_read"
    /\ opts = DefaultOpts
    /\ LAST_VAL = AfterHello
    /\ \E v \in {w \in CoreVectors : \A i \in DOMAIN w : w[i] = 0} :
         /\ cpustats = CpuStats_new(CpuFile(v)).val
         /\ n_cpu = CpuStats_n_cpu(cpustats, build).val
    /\ rx = Unset /\ tx = Unset /\ diskstats = Unset

CpuSample == CpuStage(CpuFiles, MainUs)
CpuShow == StageWrite("cpu_write", 1, "cpu_read", TRUE)
SpecCpu == InitCpu /\ [][CpuSample \/ CpuShow]_vars

InitDisk ==
    /\ InitCommon /\ boot = Booted
    /\ pc = "disk_read"
    /\ opts = DefaultOpts
    /\ LAST_VAL = AfterHello
    /\ \E f \in DiskFiles :
         /\ DiskStats_new(f).kind = "ok"
         /\ diskstats = DiskStats_new(f).val
    /\ cpustats = Unset /\ n_cpu = <<0, 0, 0, 0>> /\ rx = Unset /\ tx = Unset

DiskSample == DiskStage(DiskFiles, {200000, 250000})
DiskShow == StageWrite("disk_write", 2, "disk_read", TRUE)
SpecDisk == InitDisk /\ [][DiskSample \/ DiskShow]_vars
----------------------------------------------------------------------------
(* The network stage of src/main.rs, the binary with the unidirectional     *)
(* network gauge.  Its IfStats is the code of src/stats.rs word for word.   *)

\* the gauge of the received rate alone
NetGaugeMax_RxOnly(rxr, txr, max_mbps) ==
    FMul(FInt(GAUGE_SPAN), FDiv(FDiv(I64AsF64(rxr), FInt(MICROS_PER_SEC)), FInt(max_mbps)))
\* let rate = cmp::max(rx_rate, tx_rate);
\* let net_gauge = 256.0 * (((rate as f64) / 1_000_000.0) / (opts.max_mbps as f64));
NetGaugeMax(rxr, txr, max_mbps) ==
    FMul(FInt(GAUGE_SPAN),
         FDiv(FDiv(I64AsF64(IF I64Less(rxr, txr) THEN txr ELSE rxr),
                   FInt(MICROS_PER_SEC)), FInt(max_mbps)))

\* set_vu of src/main.rs: the gauge held within 0.0 ..= 255.0, cast to u8,
\* in the frame [0x00, 0xFF, channel, value]
set_vu_f64(channel, g) ==
    LET held == IF FLess(FInt(255), g) THEN FInt(255)
                ELSE IF FLess(g, FInt(0)) THEN FInt(0) ELSE g
    IN  <<0, 255, channel, F64AsInt(held, 0, 255)>>

\* the counter file of an interface with little traffic: steps of 12500
\* bytes, 500 kbit/s over 200 ms
MaxSlowSteps == 4
SlowNetFiles ==
    {[open |-> TRUE, lines |-> <<Parsed(k * 12500)>>] : k \in 0..MaxSlowSteps}
    \cup NetFilesBroken

InitUni ==
    /\ InitCommon /\ boot = Booted
    /\ pc = "uni_rx"
    /\ opts \in [samplerate : {2}, max_mbps : {10, 100}]
    /\ LAST_VAL = ZeroArray
    /\ rx = 0 /\ tx = 0
    /\ cpustats = Unset /\ n_cpu = <<0, 0, 0, 0>> /\ diskstats = Unset

\* let rx_rate = rx.bitrate()?;
UniRxRead ==
    /\ pc = "uni_rx"
    /\ \E f \in SlowNetFiles, us \in MainUs :
         \E r \in {bitrate(rx, f, us)} :
             /\ IF r.kind # "ok" THEN StopBy(r, f) /\ UNCHANGED <<rx, rx_rate>>
                ELSE /\ pc' = "uni_tx" /\ fault' = fault
                     /\ rx' = r.val.cnt /\ rx_rate' = r.val.rate
    /\ UNCHANGED <<cfgVars, vuVars, helloPos, cpustats, n_cpu, tx, diskstats, timeVars,
                   cpu_rates, disk_rates, gauge, tx_rate, tickLog, seen>>
    /\ UNCHANGED boot
    /\ UNCHANGED hold

\* let tx_rate = tx.bitrate()?; let rate = ...; let net_gauge = ...;
UniTxRead ==
    /\ pc = "uni_tx"
    /\ \E f \in SlowNetFiles, us \in MainUs :
         \E r \in {bitrate(tx, f, us)} :
             /\ IF r.kind # "ok" THEN StopBy(r, f) /\ UNCHANGED <<tx, tx_rate, gauge>>
                ELSE /\ pc' = "uni_write" /\ fault' = fault
                     /\ tx' = r.val.cnt /\ tx_rate' = r.val.rate
                     /\ gauge' = NetGaugeMax(rx_rate, r.val.rate, opts.max_mbps)
    /\ UNCHANGED <<cfgVars, vuVars, helloPos, cpustats, n_cpu, rx, diskstats, timeVars,
                   cpu_rates, disk_rates, rx_rate, tickLog, seen>>
    /\ UNCHANGED boot
    /\ UNCHANGED hold

\* set_vu(&mut *ser, 3, net_gauge)?;
UniNetWrite ==
    /\ pc = "uni_write"
    /\ \E wr \in WriteOutcomes :
         \E frame \in {set_vu_f64(3, gauge)} :
             /\ lastCall' = [channel |-> 3, target |-> frame[4], new |-> frame[4],
                             result |-> IF wr = 4 THEN "ok" ELSE "io",
                             written |-> SubSeq(frame, 1, wr)]
             /\ IF wr = 4 THEN pc' = "uni_rx" /\ fault' = fault
                ELSE Stop("err", "io", "sink")
    /\ gauge' = NoGauge /\ rx_rate' = I64Of(0) /\ tx_rate' = I64Of(0)
    /\ UNCHANGED <<cfgVars, LAST_VAL, helloPos, srcVars, timeVars,
                   cpu_rates, disk_rates, tickLog, seen>>
    /\ UNCHANGED boot
    /\ UNCHANGED hold

SpecUni == InitUni /\ [][UniRxRead \/ UniTxRead \/ UniNetWrite]_vars
----------------------------------------------------------------------------
(* Properties of set_vu *)

\* the last call got past the channel check and computed a value
Computed == lastCall.result \in {"ok", "io"}

\* C1: from the all-zero LAST_VAL, whatever the sequence of calls on the
\* channels 1..3 and whatever their i16 gauges, the value a call produces -
\* the channel's new LAST_VAL and the value byte of the frame it writes - is
\* within 28..255; so is every entry of LAST_VAL that a call has written.
C1_ValueInRange ==
    /\ \A c \in DOMAIN LAST_VAL : LAST_VAL[c] >= 28 /\ LAST_VAL[c] <= 255
    /\ Computed =>
         /\ lastCall.new >= 28 /\ lastCall.new <= 255
         /\ At(LAST_VAL, lastCall.channel) = lastCall.new
    /\ lastCall.result = "ok" =>
         /\ lastCall.written[4] >= 28 /\ lastCall.written[4] <= 255
         /\ lastCall.written[4] = lastCall.new

\* the very first call on channel 3, towards 255: from 0, below the range,
\* it gets to 96
C1_FirstCall ==
    /\ lastCall.result = "ok" /\ lastCall.channel = 3
    /\ lastCall.target = 255 /\ lastCall.new = 96
    /\ DOMAIN LAST_VAL = {3}

\* C2: a call moves the value of its channel by at most 96, by
\* sign(delta) * min(|delta|, 96) with delta = clamped target - last, and
\* leaves the other channels alone; this covers the step from the initial 0.
C2_StepBounded ==
    [][\A c \in HelloChannels :
         LET old == At(LAST_VAL, c)
             delta == lastCall'.target - old
         IN  /\ Abs(At(LAST_VAL', c) - old) <= 96
             /\ (lastCall' # lastCall /\ lastCall'.channel = c /\ lastCall'.result \in {"ok", "io"})
                  => At(LAST_VAL', c) = old + Signum(delta) * Min(Abs(delta), 96)
             /\ lastCall'.channel # c => At(LAST_VAL', c) = old]_vars

\* the target jumped from the bottom of the range to 255: the value went
\* from 28 to 124 only
C2_JumpLimited ==
    /\ lastCall.result = "ok" /\ lastCall.channel = 1
    /\ lastCall.target = 255 /\ lastCall.new = 28 + 96

\* C8: a successful call on channel c has written exactly the four bytes
\* 0xFD, 0x02, 0x30 + c, v with v the channel's new value; c is below 192, so
\* 0x30 + c fits a byte, and v is within 0..255, so the cast to u8 kept it.
C8_Frame ==
    lastCall.result = "ok" =>
        /\ lastCall.channel < 192
        /\ 48 + lastCall.channel <= 255
        /\ lastCall.new >= 0 /\ lastCall.new <= 255
        /\ lastCall.written
             = <<253, 2, 48 + lastCall.channel, At(LAST_VAL, lastCall.channel)>>

\* a frame for the largest accepted channel, 191: selector 0xEF
C8_LastChannel ==
    /\ lastCall.result = "ok" /\ lastCall.channel = 191
    /\ lastCall.written[3] = 239 /\ lastCall.written[4] = 255
----------------------------------------------------------------------------
(* Properties of the CPU gauge *)

\* the plain average of the two per-core rates of a machine with 2 cores
TwoCoreAverage == FDiv(FAdd(cpu_rates[2], cpu_rates[3]), FInt(2))
\* a sample of a machine with 2 cores has been mapped to a gauge
TwoCoreMapped == pc = "cpu_write" /\ n_cpu = <<0, 0, 0, 2>> /\ Len(cpu_rates) = 3

\* C3 as stated: with exactly 2 cores the gauge handed to set_vu is the plain
\* average of the two per-core busy percentages.
C3_PlainAverage == TwoCoreMapped => gauge = TwoCoreAverage

\* C3: with exactly 2 cores the gauge handed to set_vu is 2.56 times the
\* average of the two per-core busy percentages (the branch for fewer than 4
\* cores scales the percentage to the 0..256 gauge span); the rates [40, 60]
\* give 128, not 50.
C3_ScaledAverage ==
    TwoCoreMapped =>
        /\ FLess(cpu_rates[3], cpu_rates[2]) \/ cpu_rates[3] = cpu_rates[2]
        /\ gauge = FMul(TwoCoreAverage, FLit(256, 100))
        /\ (cpu_rates[2] = FInt(60) /\ cpu_rates[3] = FInt(40)) => gauge = FInt(128)

\* the spec's example: per-core rates 40 and 60, largest first after the
\* sort, and the aggregate 50 at index 0
C3_FortySixty ==
    /\ TwoCoreMapped
    /\ cpu_rates = <<FInt(50), FInt(60), FInt(40)>>
    /\ gauge = FInt(128)
----------------------------------------------------------------------------
(* Properties of the disk stage *)

\* diskrates has returned in this iteration
DiskSampled == seen.us # 0
\* the devices of the current sample that the previous sample had too
CommonDevs == DOMAIN seen.prev \cap DOMAIN seen.cur
\* the devices of the current sample that the previous sample did not have
NewDevs == DOMAIN seen.cur \ DOMAIN seen.prev
\* sectors per second of device k between the two samples
RateOfDev(k) ==
    FDiv(FMul(FInt((seen.cur[k][1] - seen.prev[k][1])
                     + (seen.cur[k][2] - seen.prev[k][2])), FInt(1000000)),
         FInt(seen.us))

\* C4 as stated: a device of the current sample that the previous sample did
\* not have gives no rate - the rate list has one entry for each device in
\* both samples - and the iteration goes on without a crash whatever the two
\* device sets are, also when they have no device in common.
C4_NewDeviceSkipped ==
    (DiskSampled /\ NewDevs # {}) =>
        /\ Len(disk_rates) = Cardinality(CommonDevs)
        /\ pc # "panic"

\* C9: when the disk gauge is computed, the rates are in descending order,
\* the gauge is 256 * disk_rates[0] / 200000, and disk_rates[0] is the
\* largest of the rates of the devices in both samples, not their sum; the
\* rates 4000 and 1000 give 5.12 in whichever order the devices were.
C9_BusiestDevice ==
    (pc = "disk_write" /\ DiskSampled) =>
        /\ Len(disk_rates) = Cardinality(CommonDevs)
        /\ \A i, j \in DOMAIN disk_rates :
             i < j => ~FLess(disk_rates[i], disk_rates[j])
        /\ \E k \in CommonDevs : RateOfDev(k) = disk_rates[1]
        /\ \A k \in CommonDevs : ~FLess(disk_rates[1], RateOfDev(k))
        /\ gauge = FDiv(FMul(FInt(256), disk_rates[1]), FInt(200000))
        /\ {RateOfDev(k) : k \in CommonDevs} = {FInt(1000), FInt(4000)}
             => gauge = FLit(512, 100)

\* the spec's example with the slower device first in the file: sda at 1000
\* and nvme0n1 at 4000 sectors per second
C9_SlowDeviceFirst ==
    /\ pc = "disk_write" /\ DiskSampled
    /\ CommonDevs = {sda, nvme0n1}
    /\ RateOfDev(sda) = FInt(1000) /\ RateOfDev(nvme0n1) = FInt(4000)
    /\ disk_rates = <<FInt(4000), FInt(1000)>>
    /\ gauge = FLit(512, 100)
----------------------------------------------------------------------------
(* Properties of the loop *)

\* C5 as stated: the argument of every thread::sleep of the loop is
\* sleep_ns - elapsed_ns computed without failing, and it is never longer
\* than the period sleep_ns, whatever the processing time of the previous
\* iteration was.
C5_SleepWithinPeriod ==
    /\ ~(pc = "panic" /\ fault.at = "sleep")
    /\ slept # NoSleep => (slept = sleep_ns \/ U32Less(slept, sleep_ns))

\* what an iteration does, in order
TickOrder ==
    << <<"read_cpu", 0>>, <<"frame", 1>>, <<"read_disk", 0>>, <<"frame", 2>>,
       <<"read_rx", 0>>, <<"read_tx", 0>>, <<"frame", 3>> >>
\* how much of TickOrder is done when main() is at a place of the loop
DoneAt ==
    [p \in {"cpu_read", "cpu_write", "disk_read", "disk_write", "rx_read", "tx_read",
            "net_write", "elapsed"} |->
        CASE p = "cpu_read" -> 0 [] p = "cpu_write" -> 1 [] p = "disk_read" -> 2
          [] p = "disk_write" -> 3 [] p = "rx_read" -> 4 [] p = "tx_read" -> 5
          [] p = "net_write" -> 6 [] p = "elapsed" -> 7]
\* the frame just written is the last entry of tickLog
FrameWritten(channel) ==
    /\ lastCall.channel = channel /\ lastCall.result = "ok"
    /\ Len(lastCall.written) = 4 /\ lastCall.written[3] = 48 + channel

\* C6: the reads and frames of an iteration happen in the one order read CPU,
\* frame 1, read disk, frame 2, read rx, read tx, frame 3: what has happened
\* is always a prefix of that order, as long as the place in the loop says;
\* an iteration that completes has written exactly the frames 1, 2, 3; and
\* the next iteration starts its log only from a completed one.
C6_FrameOrder ==
    /\ [](/\ Len(tickLog) <= 7
          /\ tickLog = SubSeq(TickOrder, 1, Len(tickLog))
          /\ pc \in DOMAIN DoneAt => Len(tickLog) = DoneAt[pc]
          /\ pc = "disk_read" => FrameWritten(1)
          /\ pc = "rx_read" => FrameWritten(2)
          /\ pc = "elapsed" => FrameWritten(3) /\ tickLog = TickOrder)
    /\ [][(tickLog' # tickLog) =>
            \/ tickLog' = <<>> /\ tickLog = TickOrder /\ pc = "sleep"
            \/ Len(tickLog') = Len(tickLog) + 1]_vars

\* the second iteration has completed
C6_SecondTickDone ==
    /\ pc = "elapsed" /\ tickLog = TickOrder
    /\ elapsed_ns # U32Of(0)
    /\ lastCall.written[3] = 51
----------------------------------------------------------------------------
(* Properties of hello *)

\* the step and the channel of the last call hello has made
HelloDone ==
    IF helloPos[2] = 1 THEN <<helloPos[1] - 1, 3>> ELSE <<helloPos[1], helloPos[2] - 1>>
\* hello has made a call and has not failed
HelloUnderWay == pc \in {"hello", "cpu_new"} /\ helloPos # <<1, 1>>

\* the sweep the spec names, as far as the 768 steps of hello go:
\* 0 up to 255, down to 128, up to 255, down to 0
ClaimedSweep(k) ==
    IF k <= 256 THEN k - 1
    ELSE IF k <= 384 THEN 512 - k
    ELSE IF k <= 512 THEN k - 257
    ELSE 768 - k

\* C7 as stated: the value bytes sent to each channel are the sweep from 0
\* up to 255, down to 128, up to 255, down to 0 and up to 255 again: the byte
\* of step k is the sweep's value, and the last byte hello sends is 255.
C7_SweepFromZero ==
    HelloUnderWay =>
        /\ lastCall.result = "ok"
        /\ lastCall.written[4] = ClaimedSweep(HelloDone[1])
        /\ pc = "cpu_new" => lastCall.written[4] = 255

\* C7: hello makes 768 steps, each writing the channels 1, 2, 3 in turn, and
\* the value byte of step k is the sweep 0 -> 255 -> 128 -> 255 -> 0 held at
\* the bottom of the valid range: 28 .. 28 -> 255 -> 128 -> 255 -> 28 .. 28.
\* The bytes of a channel change by at most 1 per step, the turning points
\* are sent twice, and hello ends at 28, with no final rise.
C7_ClampedSweep ==
    HelloUnderWay =>
        LET k == HelloDone[1]
            c == HelloDone[2]
            v(j) == IF j = 0 THEN 0 ELSE Max(28, ClaimedSweep(j))
        IN  /\ k \in 1..768 /\ c \in 1..3
            /\ lastCall.result = "ok"
            /\ lastCall.written = <<253, 2, 48 + c, v(k)>>
            /\ \A ch \in 1..3 :
                 At(LAST_VAL, ch) = IF ch <= c THEN v(k) ELSE v(k - 1)
            /\ k > 1 => Abs(v(k) - v(k - 1)) <= 1
            /\ pc = "cpu_new" <=> (k = 768 /\ c = 3)
            /\ pc = "cpu_new" => lastCall.written[4] = 28

\* hello has ended: the last frame went to channel 3 with the value 28, and
\* all three channels are at 28
C7_HelloEnded ==
    /\ pc = "cpu_new"
    /\ lastCall.written = <<253, 2, 51, 28>>
    /\ LAST_VAL = AfterHello

----------------------------------------------------------------------------
(* Properties of the failures *)

\* the places of the loop where a source is read
SourceReads == {"cpu_read", "disk_read", "rx_read", "tx_read"}
\* main() stopped in an iteration over a source that could not be opened,
\* had no lines, had a line without the expected fields or a field that is
\* no integer
SourceFailed ==
    /\ fault.at \in SourceReads
    /\ \/ fault.input \in {"unreadable", "no lines"}
       \/ fault.why \in {"parse", "items[0]", "items[2]", "items[4]", "items[5]",
                         "items[9]"}
\* the frames in tickLog
FramesOf(log) == {log[i][2] : i \in {j \in DOMAIN log : log[j][1] = "frame"}}
\* the channel that shows the source read at a place of the loop
ChannelOf(at) == IF at = "cpu_read" THEN 1 ELSE IF at = "disk_read" THEN 2 ELSE 3

\* C10 as stated: when a source fails in an iteration - unreadable, no
\* lines, or a line that does not parse - main() returns the error: the
\* outcome is Err, and neither the frame of that source nor a later one has
\* been written.
C10_FailuresAreErrors ==
    SourceFailed =>
        /\ pc = "err"
        /\ \A c \in FramesOf(tickLog) : c < ChannelOf(fault.at)
----------------------------------------------------------------------------
(* Properties of the unidirectional network gauge of src/main.rs *)

\* the larger of the two rates of the iteration
BusierRate == IF I64Less(rx_rate, tx_rate) THEN tx_rate ELSE rx_rate

\* C11: the gauge handed to set_vu by src/main.rs is
\* 256 * (max(rx_rate, tx_rate) / 1_000_000) / max_mbps: it is the gauge of
\* the busier direction alone, the same when rx and tx are swapped; the rates
\* 2,000,000 and 500,000 bit/s with max_mbps = 100 give 5.12 either way round.
C11_BusierDirection ==
    pc = "uni_write" =>
        /\ gauge = FMul(FInt(256), FDiv(FDiv(I64AsF64(BusierRate), FInt(1000000)),
                                        FInt(opts.max_mbps)))
        /\ ({rx_rate, tx_rate} = {I64Of(2000000), I64Of(500000)} /\ opts.max_mbps = 100)
             => gauge = FLit(512, 100)

\* the spec's example: 2 Mbit/s received, 0.5 Mbit/s sent, a ceiling of 100
C11_TwoMbitReceived ==
    /\ pc = "uni_write"
    /\ rx_rate = I64Of(2000000) /\ tx_rate = I64Of(500000) /\ opts.max_mbps = 100
    /\ gauge = FLit(512, 100)
----------------------------------------------------------------------------
(* Properties of the startup *)

\* how much of the startup is done when main() is at a place before the loop
BootAt ==
    [p \in {"open", "hello", "cpu_new", "rx_new", "tx_new", "disk_new", "loop_init"} |->
        CASE p = "open" -> 0 [] p = "hello" -> 1 [] p = "cpu_new" -> 2
          [] p = "rx_new" -> 3 [] p = "tx_new" -> 4 [] p = "disk_new" -> 5
          [] p = "loop_init" -> 6]
\* the places of the loop after its sleep
InTick == {"cpu_read", "cpu_write", "disk_read", "disk_write", "rx_read", "tx_read",
           "net_write", "elapsed"}

\* C12: main() opens the sink, then writes the whole hello sequence (768
\* steps on 3 channels), then constructs the CPU, rx, tx and disk source in
\* this order, each with its one seeding read, then sleeps; nothing of this
\* happens twice or out of order.  No frame goes out before the sink is
\* open, and an iteration reads or writes only after all of it; the first
\* sleep is the whole period 1_000_000_000 / samplerate ns.
C12_StartupOrder ==
    /\ Len(boot) <= 7
    /\ boot = SubSeq(<<"open", "hello", "cpu", "rx", "tx", "disk", "sleep">>, 1, Len(boot))
    /\ pc \in DOMAIN BootAt => Len(boot) = BootAt[pc] /\ tickLog = <<>>
    /\ pc = "open" => lastCall = NoCall
    /\ Len(boot) >= 2 => helloPos = <<769, 1>>
    /\ Len(boot) \in 2..6 =>
         /\ lastCall.result = "ok" /\ lastCall.channel = 3
         /\ \A c \in 1..3 : At(LAST_VAL, c) = 28
    /\ (pc \in InTick \/ tickLog # <<>>) => Len(boot) = 7
    /\ (pc \in InTick /\ elapsed_ns = U32Of(0)) =>
         /\ opts.samplerate > 0
         /\ sleep_ns = U32Of(1000000000 \div opts.samplerate)
         /\ slept = sleep_ns

\* the first frame of the first iteration is out: everything of the startup
\* came before it, and the sleep before it was the period of 200 ms
C12_FirstFrame ==
    /\ pc = "disk_read" /\ elapsed_ns = U32Of(0)
    /\ tickLog = << <<"read_cpu", 0>>, <<"frame", 1>> >>
    /\ boot = <<"open", "hello", "cpu", "rx", "tx", "disk", "sleep">>
    /\ slept = U32Of(200000000)
----------------------------------------------------------------------------
(* Properties of a held target *)

\* the held gauge within the valid range
HeldTarget == IF hold.gauge < 28 THEN 28 ELSE IF hold.gauge > 255 THEN 255 ELSE hold.gauge
\* the value of the channel whose target is held
HeldValue == At(LAST_VAL, hold.channel)

\* C13: while the gauge passed to a channel stays the same, the value of the
\* channel moves towards the clamped gauge and never past it, is equal to it
\* from the third call on wherever it started, stays equal to it, and is
\* not changed by the calls on the other channels.
C13_Converges ==
    /\ [](hold.channel # 0 =>
            /\ hold.calls >= 3 => HeldValue = HeldTarget
            /\ hold.from <= HeldTarget => (hold.from <= HeldValue /\ HeldValue <= HeldTarget)
            /\ hold.from >= HeldTarget => (hold.from >= HeldValue /\ HeldValue >= HeldTarget))
    /\ [][hold.channel # 0 =>
            /\ hold' = hold => HeldValue' = HeldValue
            /\ HeldValue <= HeldTarget => (HeldValue <= HeldValue' /\ HeldValue' <= HeldTarget)
            /\ HeldValue >= HeldTarget => (HeldValue >= HeldValue' /\ HeldValue' >= HeldTarget)
            /\ HeldValue = HeldTarget => HeldValue' = HeldTarget]_vars

\* the longest way: from 28 to 255 in the three steps 124, 220, 255, the
\* third call having just been made
C13_ThreeCalls ==
    /\ hold.channel = 1 /\ hold.gauge = 32767 /\ hold.from = 28 /\ hold.calls = 3
    /\ lastCall.channel = 1 /\ lastCall.target = 255 /\ lastCall.new = 255
    /\ At(LAST_VAL, 1) = 255

====
